---- MODULE Spec2Model ----
(***************************************************************************)
(* Model of src/backend.py: the HealthInsure AI backend.  Six FastAPI      *)
(* routes, each of which builds a prompt, calls call_gemini_api once and   *)
(* relays or json-decodes the text it gets back.                           *)
(*                                                                         *)
(* Texts are sequences of characters where the code looks inside them      *)
(* (PDF page text: join, strip, slice).  The text the gateway returns is   *)
(* a record [kind, value]: kind "json" is strictly valid JSON encoding     *)
(* value, kind "fenced" is the same JSON wrapped in a markdown code fence  *)
(* (not valid JSON), kind "prose" is free text.  An error detail is the    *)
(* sequence of the string pieces the f-string concatenates.                *)
(***************************************************************************)
EXTENDS Integers, Sequences, FiniteSets, TLC

VARIABLES GEMINI_API_KEY, starletteStr, requestsJsonError,
          request, reply, response, trace, nRequests, nCalls

vars == <<GEMINI_API_KEY, starletteStr, requestsJsonError,
          request, reply, response, trace, nRequests, nCalls>>

\* ------------------------------------------------------------------ bounds
MaxRequests == 2
MaxPages == 2
MaxHospitals == 6
MaxRecommendations == 1

\* --------------------------------------------------------- program constants
PromptTextLimit == 8000

\* ------------------------------------------------------------ configuration
\* os.getenv("GEMINI_API_KEY"): None when unset, else the string (maybe empty).
ApiKeyValues == {"None", "", "secret"}

\* `not GEMINI_API_KEY`: None and "" are both falsy.
KeyMissing(key) == key \in {"None", ""}

\* ------------------------------------------------------------------- texts
Whitespace == {" ", "\n"}
PageTexts == { <<"\n">>, <<" ", "a", " ">> }

RECURSIVE Join(_)
\* "".join(parts): the parts in order, no separator
Join(parts) == IF parts = <<>> THEN <<>> ELSE Head(parts) \o Join(Tail(parts))

RECURSIVE LStrip(_)
LStrip(s) == IF s # <<>> /\ Head(s) \in Whitespace THEN LStrip(Tail(s)) ELSE s

RECURSIVE RStrip(_)
RStrip(s) == IF s # <<>> /\ s[Len(s)] \in Whitespace
             THEN RStrip(SubSeq(s, 1, Len(s) - 1)) ELSE s

\* str.strip()
Strip(s) == RStrip(LStrip(s))

\* text[:n]
Slice(s, n) == IF Len(s) <= n THEN s ELSE SubSeq(s, 1, n)

\* ------------------------------------------------------------ HTTP errors
StatusStr(status) == CASE status = 400 -> "400"
                       [] status = 500 -> "500"
                       [] status = 503 -> "503"
                       [] OTHER -> "200"

\* str(e) of an HTTPException: "<status>: <detail>" where the installed
\* Starlette defines __str__, "" where it does not (keyword-only construction
\* leaves Exception.args empty).
StrHTTPException(hasStr, status, detail) ==
    IF hasStr THEN <<StatusStr(status), ": ">> \o detail ELSE <<>>

\* A decoded JSON value: an object (a record) or null.
Obj(o) == [t |-> "object", o |-> o]
Null == [t |-> "null", o |-> [null |-> TRUE]]

NoText == [kind |-> "none", value |-> Null]

\* what a callee hands back: a returned text, or a raised exception
Returned(text, sends) ==
    [raised |-> "none", status |-> 200, detail |-> <<>>, text |-> text, sends |-> sends]

RaisedHTTP(status, detail, sends) ==
    [raised |-> "HTTPException", status |-> status, detail |-> detail,
     text |-> NoText, sends |-> sends]

\* ------------------------------------------------------- the gateway's reply
\* What the remote service does with the one POST:
\*   timeout / connection_error : requests.post raises a RequestException
\*   http_error      : a non-2xx status (message: the remote error message, "" if none)
\*   undecodable_body: 2xx, body is not JSON
\*   candidates      : 2xx, candidates[0].content.parts[0].text = text
\*   bad_candidate   : 2xx, a candidate without content/parts
\*   error_body      : 2xx, no candidates, an "error" object (message "" if none)
\*   no_candidates   : 2xx, neither candidates nor error
Reply(kind, message, text) == [kind |-> kind, message |-> message, text |-> text]

NoReply == Reply("none", "", NoText)

FailureReplies ==
    { Reply(k, "", NoText) :
        k \in {"timeout", "connection_error", "undecodable_body",
               "bad_candidate", "no_candidates"} }
    \cup { Reply(k, m, NoText) : k \in {"http_error", "error_body"},
                                 m \in {"", "quota exceeded"} }

\* result['error'].get('message', 'Unknown error')
ErrorMessage(message) == IF message = "" THEN "Unknown error" ELSE message

\* lines 91-106: the try block, one requests.post with timeout=90
gemini_post(hasStr, jsonIsReqExc, r) ==
    CASE r.kind \in {"timeout", "connection_error"} ->
           \* requests.post raises: except RequestException
           RaisedHTTP(503, <<"Could not connect to AI service: ", r.kind>>, 1)
      [] r.kind = "http_error" ->
           \* raise_for_status raises HTTPError, a RequestException
           RaisedHTTP(503, <<"Could not connect to AI service: ", "HTTPError">>, 1)
      [] r.kind = "undecodable_body" ->
           \* response.json() raises: a RequestException in the requests
           \* releases that define requests.JSONDecodeError, a bare ValueError before
           IF jsonIsReqExc
           THEN RaisedHTTP(503, <<"Could not connect to AI service: ", "JSONDecodeError">>, 1)
           ELSE RaisedHTTP(500, <<"Unexpected error: ", "JSONDecodeError">>, 1)
      [] r.kind = "candidates" -> Returned(r.text, 1)
      [] r.kind = "bad_candidate" ->
           \* KeyError / IndexError on candidates[0]["content"]["parts"][0]["text"]
           RaisedHTTP(500, <<"Unexpected error: ", "KeyError">>, 1)
      [] r.kind = "error_body" ->
           \* the HTTPException raised in the try is caught by `except Exception`
           RaisedHTTP(500,
               <<"Unexpected error: ">> \o
               StrHTTPException(hasStr, 500,
                   <<"Gemini API Error: ", ErrorMessage(r.message)>>), 1)
      [] OTHER ->
           RaisedHTTP(500,
               <<"Unexpected error: ">> \o
               StrHTTPException(hasStr, 500,
                   <<"Invalid response structure from Gemini API.">>), 1)

\* mutant: the key is checked only after the request went out
call_gemini_api_send_first(key, hasStr, jsonIsReqExc, r, is_json_output) ==
    IF KeyMissing(key)
    THEN RaisedHTTP(500, <<"GEMINI_API_KEY not configured.">>, 1)
    ELSE gemini_post(hasStr, jsonIsReqExc, r)

\* mutant: a second attempt after a timeout or transport error
call_gemini_api_retry(key, hasStr, jsonIsReqExc, r, is_json_output) ==
    IF KeyMissing(key)
    THEN RaisedHTTP(500, <<"GEMINI_API_KEY not configured.">>, 0)
    ELSE LET first == gemini_post(hasStr, jsonIsReqExc, r)
         IN  IF first.status = 503
             THEN [first EXCEPT !.sends = 2]
             ELSE first

\* is_json_output only adds response_mime_type to the request body
call_gemini_api(key, hasStr, jsonIsReqExc, r, is_json_output) ==
    IF KeyMissing(key)
    THEN RaisedHTTP(500, <<"GEMINI_API_KEY not configured.">>, 0)
    ELSE gemini_post(hasStr, jsonIsReqExc, r)

\* -------------------------------------------------------------- JSON values
JsonText(v) == [kind |-> "json", value |-> v]
FencedText(v) == [kind |-> "fenced", value |-> v]
ProseText == [kind |-> "prose", value |-> Null]

\* json.loads(text): the value when text is strictly valid JSON, else JSONDecodeError
json_loads_lenient(text) ==
    IF text.kind \in {"json", "fenced"}
    THEN [raised |-> "none", value |-> text.value]
    ELSE [raised |-> "JSONDecodeError", value |-> Null]

json_loads(text) ==
    IF text.kind = "json"
    THEN [raised |-> "none", value |-> text.value]
    ELSE [raised |-> "JSONDecodeError", value |-> Null]

\* n copies of x as a list
Repeat(x, n) == [i \in 1..n |-> x]

\* ---------------------------------------------------- what the handlers return
\* what one request did: the prompt template it built (and the document text
\* interpolated into it), whether it read the upload, opened it as a PDF, and
\* how many times it POSTed to the gateway
NoTrace == [prompt |-> "none", prompt_text |-> <<>>, is_json_output |-> FALSE,
            body_read |-> FALSE, extract_attempted |-> FALSE, sends |-> 0]

HandlerReturn(value, tr) ==
    [raised |-> "none", status |-> 200, detail |-> <<>>, value |-> value, trace |-> tr]

HandlerRaise(status, detail, tr) ==
    [raised |-> "HTTPException", status |-> status, detail |-> detail,
     value |-> Null, trace |-> tr]


\* ------------------------------------------------------------ response models
\* A pydantic model: its required fields, and for each List[Model] field the
\* required fields of an item.  Validation (default config) needs every required
\* field; serialisation keeps the declared fields only.
NoItems == [f \in {} |-> {}]

AskResponse == [fields |-> {"answer"}, items |-> NoItems]

UploadDocResponse ==
    [fields |-> {"status", "filename", "summary", "full_text"}, items |-> NoItems]

ClaimCheckResponse ==
    [fields |-> {"decision", "reason", "required_documents"}, items |-> NoItems]

RecommendPolicyResponse ==
    [fields |-> {"recommendations"},
     items |-> [recommendations |->
                  {"policy_name", "reasoning", "key_features", "estimated_premium"}]]

FindHospitalsResponse ==
    [fields |-> {"hospitals"},
     items |-> [hospitals |-> {"name", "address", "specialties"}]]

AnalyticsResponse ==
    [fields |-> {"claim_status_distribution", "monthly_claims", "key_metrics"},
     items |-> NoItems]

Valid(model, v) ==
    /\ v.t = "object"
    /\ model.fields \subseteq DOMAIN v.o
    /\ \A f \in DOMAIN model.items :
         \A i \in DOMAIN v.o[f] : model.items[f] \subseteq DOMAIN v.o[f][i]

Dump(model, v) ==
    [f \in model.fields |->
        IF f \in DOMAIN model.items
        THEN [i \in DOMAIN v.o[f] |-> [g \in model.items[f] |-> v.o[f][i][g]]]
        ELSE v.o[f]]

\* FastAPI around a handler: an HTTPException becomes its status and
\* {"detail": ...}; a returned value goes through response_model, and one that
\* does not validate is a 500.
Respond(model, h) ==
    IF h.raised # "none"
    THEN [status |-> h.status, detail |-> h.detail, body |-> Null]
    ELSE IF Valid(model, h.value)
    THEN [status |-> 200, detail |-> <<>>, body |-> Obj(Dump(model, h.value))]
    ELSE [status |-> 500, detail |-> <<"Internal Server Error">>, body |-> Null]

\* ------------------------------------------------------------------ handlers
Truthy(s) == s \notin {"None", ""}

ask_question(data, key, hasStr, jsonIsReqExc, r) ==
    LET prompt == IF Truthy(data.document_context)
                  THEN "ask_with_context" ELSE "ask_general"
        c == call_gemini_api(key, hasStr, jsonIsReqExc, r, FALSE)
        tr == [NoTrace EXCEPT !.prompt = prompt, !.sends = c.sends]
    IN  IF c.raised # "none"
        THEN HandlerRaise(c.status, c.detail, tr)
        ELSE HandlerReturn(Obj([answer |-> c.text]), tr)

\* page.get_text() for page in doc, joined and stripped
ExtractText(pages) == Strip(Join(pages))


\* lines 136-153: read the upload, then the try block
upload_doc_process(file, key, hasStr, jsonIsReqExc, r) ==
    LET opened == [NoTrace EXCEPT !.body_read = TRUE, !.extract_attempted = TRUE]
    IN  IF ~file.readable
        THEN \* fitz.open raises; except Exception
             HandlerRaise(500, <<"PDF processing error: ", "FileDataError">>, opened)
        ELSE
        LET text == ExtractText(file.pages)
        IN  IF text = <<>>
            THEN \* the HTTPException(400) is raised inside the try and caught by
                 \* its `except Exception`
                 HandlerRaise(500,
                     <<"PDF processing error: ">> \o
                     StrHTTPException(hasStr, 400, <<"PDF is empty or non-readable.">>),
                     opened)
            ELSE
            LET c == call_gemini_api(key, hasStr, jsonIsReqExc, r, FALSE)
                tr == [opened EXCEPT !.prompt = "summarize",
                                     !.prompt_text = Slice(text, PromptTextLimit),
                                     !.sends = c.sends]
            IN  IF c.raised # "none"
                THEN \* whatever call_gemini_api raised is caught the same way
                     HandlerRaise(500,
                         <<"PDF processing error: ">> \o
                         StrHTTPException(hasStr, c.status, c.detail), tr)
                ELSE HandlerReturn(
                         Obj([status |-> "success", filename |-> file.filename,
                              summary |-> c.text, full_text |-> text]), tr)

\* mutant: the upload is read before the content type is looked at
upload_doc_read_first(file, key, hasStr, jsonIsReqExc, r) ==
    IF file.content_type # "application/pdf"
    THEN HandlerRaise(400, <<"Only PDF files are allowed.">>,
                      [NoTrace EXCEPT !.body_read = TRUE])
    ELSE upload_doc_process(file, key, hasStr, jsonIsReqExc, r)

upload_doc(file, key, hasStr, jsonIsReqExc, r) ==
    IF file.content_type # "application/pdf"
    THEN HandlerRaise(400, <<"Only PDF files are allowed.">>, NoTrace)
    ELSE upload_doc_process(file, key, hasStr, jsonIsReqExc, r)

\* mutant: the handler rewrites a field of the decoded value before returning it
check_claim_wrapped(bill, key, hasStr, jsonIsReqExc, r) ==
    LET c == call_gemini_api(key, hasStr, jsonIsReqExc, r, TRUE)
        tr == [NoTrace EXCEPT !.prompt = IF bill THEN "check_claim_bill_yes"
                                         ELSE "check_claim_bill_no",
                              !.is_json_output = TRUE, !.sends = c.sends]
        d == json_loads(c.text)
    IN  IF c.raised # "none" THEN HandlerRaise(c.status, c.detail, tr)
        ELSE IF d.raised # "none"
        THEN HandlerRaise(500, <<"AI did not return valid JSON.">>, tr)
        ELSE IF d.value.t = "object" /\ "reason" \in DOMAIN d.value.o
        THEN HandlerReturn(Obj([d.value.o EXCEPT !.reason = "see decision"]), tr)
        ELSE HandlerReturn(d.value, tr)

check_claim(bill, key, hasStr, jsonIsReqExc, r) ==
    LET c == call_gemini_api(key, hasStr, jsonIsReqExc, r, TRUE)
        tr == [NoTrace EXCEPT !.prompt = IF bill THEN "check_claim_bill_yes"
                                         ELSE "check_claim_bill_no",
                              !.is_json_output = TRUE, !.sends = c.sends]
        d == json_loads(c.text)
    IN  IF c.raised # "none" THEN HandlerRaise(c.status, c.detail, tr)
        ELSE IF d.raised # "none"
        THEN HandlerRaise(500, <<"AI did not return valid JSON.">>, tr)
        ELSE HandlerReturn(d.value, tr)

recommend_policy(key, hasStr, jsonIsReqExc, r) ==
    LET c == call_gemini_api(key, hasStr, jsonIsReqExc, r, TRUE)
        tr == [NoTrace EXCEPT !.prompt = "recommend_policy",
                              !.is_json_output = TRUE, !.sends = c.sends]
        d == json_loads(c.text)
    IN  IF c.raised # "none" THEN HandlerRaise(c.status, c.detail, tr)
        ELSE IF d.raised # "none"
        THEN HandlerRaise(500, <<"AI did not return valid JSON.">>, tr)
        ELSE HandlerReturn(d.value, tr)

find_hospitals(key, hasStr, jsonIsReqExc, r) ==
    LET c == call_gemini_api(key, hasStr, jsonIsReqExc, r, TRUE)
        tr == [NoTrace EXCEPT !.prompt = "find_hospitals",
                              !.is_json_output = TRUE, !.sends = c.sends]
        d == json_loads(c.text)
    IN  IF c.raised # "none" THEN HandlerRaise(c.status, c.detail, tr)
        ELSE IF d.raised # "none"
        THEN HandlerRaise(500, <<"AI did not return valid JSON.">>, tr)
        ELSE HandlerReturn(d.value, tr)

get_analytics_data(key, hasStr, jsonIsReqExc, r) ==
    LET c == call_gemini_api(key, hasStr, jsonIsReqExc, r, TRUE)
        tr == [NoTrace EXCEPT !.prompt = "analytics",
                              !.is_json_output = TRUE, !.sends = c.sends]
        d == json_loads(c.text)
    IN  IF c.raised # "none" THEN HandlerRaise(c.status, c.detail, tr)
        ELSE IF d.raised # "none"
        THEN HandlerRaise(500, <<"AI did not return valid JSON.">>, tr)
        ELSE HandlerReturn(d.value, tr)

\* ------------------------------------------------------------------ requests
Request(route, file, document_context, bill) ==
    [route |-> route, file |-> file, document_context |-> document_context,
     bill |-> bill]

File(content_type, readable, pages) ==
    [content_type |-> content_type, filename |-> "policy.pdf",
     readable |-> readable, pages |-> pages]

NoFile == File("none", FALSE, <<>>)
NoRequest == Request("none", NoFile, "None", FALSE)

ContentTypes == {"application/pdf", "text/plain"}

\* the pages of an upload, in document order
PageLists == UNION { [1..n -> PageTexts] : n \in 1..MaxPages }

Uploads == { File(ct, TRUE, ps) : ct \in ContentTypes, ps \in PageLists }
            \cup { File(ct, FALSE, <<>>) : ct \in ContentTypes }

Contexts == {"None", "", "policy text"}

\* ------------------------------------------------- what the model may answer
Decisions == {"Eligible", "Ineligible", "More Information Needed"}

ClaimObject(d, docs) ==
    [decision |-> d, reason |-> "because", required_documents |-> docs]

ClaimValues ==
    { Obj(ClaimObject(d, docs)) :
        d \in Decisions \cup {"Approved"}, docs \in {<<>>, <<"bill", "id">>} }
    \cup { Obj([decision |-> "Eligible", reason |-> "because",
                required_documents |-> <<>>, confidence |-> "high"]),
           Obj([decision |-> "Eligible", required_documents |-> <<>>]),
           Null }

Policy == [policy_name |-> "Care Plus", reasoning |-> "fits budget",
           key_features |-> <<"cashless">>, estimated_premium |-> "12000"]
PolicyExtra == [policy_name |-> "Care Plus", reasoning |-> "fits budget",
                key_features |-> <<"cashless">>, estimated_premium |-> "12000",
                insurer |-> "Acme"]
PolicyShort == [policy_name |-> "Care Plus"]

PolicyValues ==
    { Obj([recommendations |-> Repeat(p, n)]) :
        p \in {Policy, PolicyExtra, PolicyShort}, n \in 0..MaxRecommendations }
    \cup { Obj([policies |-> <<>>]), Null }

Hospital == [name |-> "City Hospital", address |-> "MG Road",
             specialties |-> <<"cardiology">>]
HospitalExtra == [name |-> "City Hospital", address |-> "MG Road",
                  specialties |-> <<"cardiology">>, phone |-> "100"]
HospitalShort == [name |-> "City Hospital"]

HospitalValues ==
    { Obj([hospitals |-> Repeat(h, n)]) :
        h \in {Hospital, HospitalExtra, HospitalShort}, n \in 0..MaxHospitals }
    \cup { Obj([hospitals |-> <<Hospital>>, source |-> "model"]),
           Obj([places |-> <<>>]), Null }

Chart == [labels |-> <<"Approved", "Pending", "Rejected">>, data |-> <<7, 2, 1>>]
Metrics == [total_claims |-> 10, approval_rate |-> 70, avg_claim_amount |-> 5000]

AnalyticsValues ==
    { Obj([claim_status_distribution |-> Chart, monthly_claims |-> Chart,
           key_metrics |-> Metrics]),
      Obj([claim_status_distribution |-> Chart, monthly_claims |-> Chart,
           key_metrics |-> Metrics, generated_by |-> "model"]),
      Obj([claim_status_distribution |-> Chart, monthly_claims |-> Chart]),
      Null }

\* the gateway's possible replies to a prompt whose JSON answers are `values`
StructuredReplies(values) ==
    FailureReplies
    \cup { Reply("candidates", "", JsonText(v)) : v \in values }
    \cup { Reply("candidates", "", FencedText(v)) : v \in values }
    \cup { Reply("candidates", "", ProseText) }

FreeTextReplies ==
    FailureReplies \cup { Reply("candidates", "", ProseText) }

\* ----------------------------------------------------------------- the system
NoResponse == [status |-> 0, detail |-> <<>>, body |-> Null]

Init ==
    /\ GEMINI_API_KEY \in ApiKeyValues
    /\ starletteStr \in BOOLEAN
    /\ requestsJsonError \in BOOLEAN
    /\ request = NoRequest
    /\ reply = NoReply
    /\ response = NoResponse
    /\ trace = NoTrace
    /\ nRequests = 0
    /\ nCalls = 0

\* one request served to the end: the handler, then FastAPI's response handling
Serve(req, r, h, model) ==
    /\ nRequests < MaxRequests
    /\ request' = req
    /\ reply' = IF h.trace.sends > 0 THEN r ELSE NoReply
    /\ response' = Respond(model, h)
    /\ trace' = h.trace
    /\ nRequests' = nRequests + 1
    /\ nCalls' = nCalls + h.trace.sends
    /\ UNCHANGED <<GEMINI_API_KEY, starletteStr, requestsJsonError>>

AskQuestion ==
    \E ctx \in Contexts, r \in FreeTextReplies :
        LET req == Request("/ask", NoFile, ctx, FALSE)
        IN  Serve(req, r,
                  ask_question(req, GEMINI_API_KEY, starletteStr, requestsJsonError, r),
                  AskResponse)

UploadDoc ==
    \E file \in Uploads, r \in FreeTextReplies :
        Serve(Request("/upload-doc", file, "None", FALSE), r,
              upload_doc(file, GEMINI_API_KEY, starletteStr, requestsJsonError, r),
              UploadDocResponse)

CheckClaim ==
    \E bill \in BOOLEAN, r \in StructuredReplies(ClaimValues) :
        Serve(Request("/check-claim", NoFile, "policy text", bill), r,
              check_claim(bill, GEMINI_API_KEY, starletteStr, requestsJsonError, r),
              ClaimCheckResponse)

RecommendPolicy ==
    \E r \in StructuredReplies(PolicyValues) :
        Serve(Request("/recommend-policy", NoFile, "None", FALSE), r,
              recommend_policy(GEMINI_API_KEY, starletteStr, requestsJsonError, r),
              RecommendPolicyResponse)

FindHospitals ==
    \E r \in StructuredReplies(HospitalValues) :
        Serve(Request("/find-hospitals", NoFile, "None", FALSE), r,
              find_hospitals(GEMINI_API_KEY, starletteStr, requestsJsonError, r),
              FindHospitalsResponse)

GetAnalyticsData ==
    \E r \in StructuredReplies(AnalyticsValues) :
        Serve(Request("/analytics", NoFile, "None", FALSE), r,
              get_analytics_data(GEMINI_API_KEY, starletteStr, requestsJsonError, r),
              AnalyticsResponse)

Next ==
    \/ AskQuestion
    \/ UploadDoc
    \/ CheckClaim
    \/ RecommendPolicy
    \/ FindHospitals
    \/ GetAnalyticsData

Spec == Init /\ [][Next]_vars


\* ===================================================================== claims
Served == response.status # 0

StructuredRoutes ==
    {"/check-claim", "/recommend-policy", "/find-hospitals", "/analytics"}

ResponseModel(route) ==
    CASE route = "/check-claim" -> ClaimCheckResponse
      [] route = "/recommend-policy" -> RecommendPolicyResponse
      [] route = "/find-hospitals" -> FindHospitalsResponse
      [] OTHER -> AnalyticsResponse

\* s occurs among the pieces of an error detail
Carries(detail, s) == \E i \in DOMAIN detail : detail[i] = s

IsPdfUpload ==
    request.route = "/upload-doc" /\ request.file.content_type = "application/pdf"

\* the upload is a readable PDF whose pages hold some non-blank text
HasText == request.file.readable /\ ExtractText(request.file.pages) # <<>>

\* the upload is a readable PDF whose joined page text strips to nothing
IsBlank == request.file.readable /\ ExtractText(request.file.pages) = <<>>

\* the request got as far as call_gemini_api
ReachesGateway ==
    /\ Served
    /\ request.route = "/upload-doc" => IsPdfUpload /\ HasText

\* C1: a PDF upload whose extracted text is empty after trimming is answered
\* 400 (EmptyDocument) and the gateway is never called.
C1_EmptyPdfIs400 ==
    (IsPdfUpload /\ IsBlank) => (response.status = 400 /\ trace.sends = 0)

\* C2: on every AI-backed route, a gateway call that fails by network error or
\* timeout is answered 503.
C2_Unavailable503 ==
    (Served /\ reply.kind \in {"timeout", "connection_error"})
        => response.status = 503

\* C3: a non-2xx gateway status or an undecodable gateway body is answered 500
\* (not 503), with the remote error message if there is one, else a generic one.
C3_UpstreamError500 ==
    (Served /\ reply.kind \in {"http_error", "undecodable_body"})
        => /\ response.status = 500
           /\ reply.message # "" => Carries(response.detail, reply.message)

C5_NonPdfRejectedFirst ==
    (request.route = "/upload-doc" /\ ~IsPdfUpload)
        => /\ response.status = 400
           /\ response.detail = <<"Only PDF files are allowed.">>
           /\ ~trace.body_read
           /\ ~trace.extract_attempted
           /\ trace.sends = 0

C5_Witness ==
    /\ request.route = "/upload-doc"
    /\ request.file.content_type = "text/plain"
    /\ HasText
    /\ Len(request.file.pages) = 2
    /\ ~KeyMissing(GEMINI_API_KEY)
    /\ response.status = 400

\* the value has exactly the fields the response model declares, at the top
\* level and in every item of its lists
ExactShape(model, v) ==
    /\ v.t = "object"
    /\ DOMAIN v.o = model.fields
    /\ \A f \in DOMAIN model.items :
         \A i \in DOMAIN v.o[f] : DOMAIN v.o[f][i] = model.items[f]

GatewayReturnedJson ==
    /\ Served
    /\ request.route \in StructuredRoutes
    /\ reply.kind = "candidates"
    /\ reply.text.kind = "json"

\* C6: on a structured route, when the gateway returns valid JSON of exactly the
\* declared response shape, the response is 200 and its body is the decoded
\* value, nothing added, removed or changed.
C6_PassThrough ==
    (GatewayReturnedJson /\ ExactShape(ResponseModel(request.route), reply.text.value))
        => /\ response.status = 200
           /\ response.body = reply.text.value

C6_Witness ==
    /\ GatewayReturnedJson
    /\ request.route = "/find-hospitals"
    /\ ExactShape(FindHospitalsResponse, reply.text.value)
    /\ Len(reply.text.value.o.hospitals) = 3
    /\ response.status = 200

\* C7: on a structured route, when the gateway call succeeds with text that is
\* not valid JSON, the response is 500 "AI did not return valid JSON.", nothing
\* is recovered from the text and the gateway was called once.
C7_MalformedAiResponse ==
    (/\ Served
     /\ request.route \in StructuredRoutes
     /\ reply.kind = "candidates"
     /\ reply.text.kind # "json")
        => /\ response.status = 500
           /\ response.detail = <<"AI did not return valid JSON.">>
           /\ response.body = Null
           /\ trace.sends = 1

C7_Witness ==
    /\ Served
    /\ request.route = "/recommend-policy"
    /\ reply.kind = "candidates"
    /\ reply.text.kind = "fenced"
    /\ ExactShape(RecommendPolicyResponse, reply.text.value)
    /\ response.status = 500

\* C8: every 200 response of /find-hospitals holds at most 5 hospitals.
C8_AtMostFiveHospitals ==
    (request.route = "/find-hospitals" /\ response.status = 200)
        => Len(response.body.o.hospitals) <= 5

\* C9: every 200 response of /check-claim has a decision that is one of
\* Eligible, Ineligible, More Information Needed.
C9_DecisionEnum ==
    (request.route = "/check-claim" /\ response.status = 200)
        => response.body.o.decision \in Decisions

\* C10 as stated: every request makes exactly one outbound call, so the calls
\* never outnumber the requests.
C10_ExactlyOneCall ==
    /\ Served => trace.sends = 1
    /\ nCalls <= nRequests

\* C10 amended: every request makes at most one outbound call: exactly one when
\* a key is configured and the request reaches the gateway client, none
\* otherwise; a timeout, transport error, upstream error or undecodable AI text
\* is never retried; so the calls never outnumber the requests.
C10_AtMostOneCall ==
    /\ Served => /\ trace.sends \in {0, 1}
                 /\ trace.sends = 1
                      <=> (ReachesGateway /\ ~KeyMissing(GEMINI_API_KEY))
    /\ nCalls <= nRequests

C10_Witness ==
    /\ Served
    /\ reply.kind = "timeout"
    /\ trace.sends = 1
    /\ nRequests = 2
    /\ nCalls = 2

====
